---- MODULE Spec2Model ----
(***************************************************************************)
(* Model of bot.py: the photo handler (handle_photo), the record store     *)
(* (load_coordinates / save_coordinates / coordinate_exists /              *)
(* add_coordinate) and the debounced map scheduler                         *)
(* (schedule_map_generation / send_map_after_delay).                       *)
(*                                                                         *)
(* Conventions                                                             *)
(*  - an optional value is a sequence: <<>> is None, <<v>> is the value v; *)
(*    an optional client name is the string "None" or the name.            *)
(*  - latitudes and longitudes are integers in micro-degrees (1e-6 deg),   *)
(*    so the client centres of CLIENTES_OURILANDIA are exact.              *)
(*  - time is counted in the units of `delay`; synchronous code takes no   *)
(*    time and a timer whose sleep has elapsed runs before anything else   *)
(*    (the event loop is idle at every await of the handler).              *)
(*  - the text recognised by the OCR engine is given by what the regular   *)
(*    expressions of the source capture from it.                           *)
(***************************************************************************)
EXTENDS Integers, Sequences, FiniteSets, TLC

\* ------------------------------------------------------------------------
\* Bounds of the model
\* ------------------------------------------------------------------------
MaxRecords == 2      \* longest record list a successful write may produce
MaxTasks   == 3      \* timer task objects that may be alive at once
TickStep   == 30     \* largest advance of time in one step

\* ------------------------------------------------------------------------
\* Program constants
\* ------------------------------------------------------------------------
Delay       == 60          \* handle_photo: schedule_map_generation(context, delay=60)
MaxRetries  == 2           \* handle_photo: extract_data_from_image(.., max_retries=2)
Tolerance   == 100         \* coordinate_exists: 0.0001 degree
LatLimit    == 90000000    \* parse_coordinates: -90 <= latitude <= 90
LonLimit    == 180000000   \* parse_coordinates: -180 <= longitude <= 180
RaioMetros  == 500         \* CLIENTES_OURILANDIA[..]["raio_metros"]

None == <<>>
Some(v) == <<v>>
NoCliente == "None"

Abs(x) == IF x < 0 THEN -x ELSE x
Min(a, b) == IF a < b THEN a ELSE b

\* ------------------------------------------------------------------------
\* Clients and geofences
\* ------------------------------------------------------------------------
\* The table in the order of the dict literal (dicts keep insertion order).
CLIENTES_OURILANDIA ==
    << [name |-> "Oia Giro",      latitude |-> -6754173, longitude |-> -51071787, raio_metros |-> RaioMetros],
       [name |-> "Oia Ideal",     latitude |-> -6750542, longitude |-> -51080360, raio_metros |-> RaioMetros],
       [name |-> "Oia Macre",     latitude |-> -6759242, longitude |-> -51071143, raio_metros |-> RaioMetros],
       [name |-> "Oia Parazao",   latitude |-> -6751243, longitude |-> -51078318, raio_metros |-> RaioMetros],
       [name |-> "Oia Norte Sul", latitude |-> -6752724, longitude |-> -51076518, raio_metros |-> RaioMetros],
       [name |-> "Oia Mix",       latitude |-> -6730903, longitude |-> -51071559, raio_metros |-> RaioMetros] >>

ClienteNames == { CLIENTES_OURILANDIA[i].name : i \in 1..Len(CLIENTES_OURILANDIA) }

RECURSIVE CeilSqrtBin(_, _, _)
\* least r in lo..hi with r*r >= n
CeilSqrtBin(n, lo, hi) ==
    IF lo >= hi THEN lo
    ELSE LET mid == (lo + hi) \div 2
         IN  IF mid * mid >= n THEN CeilSqrtBin(n, lo, mid)
                               ELSE CeilSqrtBin(n, mid + 1, hi)

\* Distance in decimetres, each component and the root rounded up, so that
\* a point the model puts at the radius is within the radius for the source
\* as well.  The great-circle formula is replaced
\* by its flat approximation at the latitude of the sites (one micro-degree
\* of latitude is 0.111195 m, of longitude 0.110424 m); a point more than
\* 10000 micro-degrees away on an axis is over 1 km away, further than any
\* radius, and gets the fixed distance 100000.
haversine_distance(lat1, lon1, lat2, lon2) ==
    LET dlat == Abs(lat2 - lat1)
        dlon == Abs(lon2 - lon1)
    IN  IF dlat > 10000 \/ dlon > 10000 THEN 100000
        ELSE LET n == (dlat * 111195 + 99999) \div 100000
                 e == (dlon * 110424 + 99999) \div 100000
             IN  CeilSqrtBin(n * n + e * e, 0, 20000)

RECURSIVE GeofenceFrom_Open(_, _, _)
\* the geofence loop with "distancia < raio_metros": the boundary left out
GeofenceFrom_Open(i, latitude, longitude) ==
    IF i > Len(CLIENTES_OURILANDIA) THEN NoCliente
    ELSE LET c == CLIENTES_OURILANDIA[i]
             distancia == haversine_distance(latitude, longitude, c.latitude, c.longitude)
         IN  IF distancia < c.raio_metros * 10 THEN c.name
             ELSE GeofenceFrom_Open(i + 1, latitude, longitude)

RECURSIVE GeofenceFrom(_, _, _)
GeofenceFrom(i, latitude, longitude) ==
    IF i > Len(CLIENTES_OURILANDIA) THEN NoCliente
    ELSE LET c == CLIENTES_OURILANDIA[i]
             distancia == haversine_distance(latitude, longitude, c.latitude, c.longitude)
         IN  IF distancia <= c.raio_metros * 10 THEN c.name
             ELSE GeofenceFrom(i + 1, latitude, longitude)

find_cliente_by_geofence(latitude, longitude) == GeofenceFrom(1, latitude, longitude)

\* ------------------------------------------------------------------------
\* The record store: coordenadas.json
\* ------------------------------------------------------------------------
\* The file is [valid, data]: valid is FALSE when the content is not a JSON
\* document (a write that failed after open(.., 'w') truncated the file);
\* a file that does not exist reads as the empty list, like valid data <<>>.
EmptyFile   == [valid |-> TRUE,  data |-> <<>>]
CorruptFile == [valid |-> FALSE, data |-> <<>>]

\* load_coordinates: the list, or [] when open/json.load raises.  ioOk is
\* the environment: FALSE when reading raises although the content is fine.
load_coordinates(file, ioOk) ==
    IF file.valid /\ ioOk THEN file.data ELSE <<>>

WriteOutcomes == {"ok", "open_failed", "truncated"}

\* save_coordinates without the except branch's "return False": the write
\* fails as it does, and the caller is told it went through.
save_coordinates_AlwaysTrue(file, coords_list, wr) ==
    CASE wr = "ok"          -> [ret |-> TRUE, file |-> [valid |-> TRUE, data |-> coords_list]]
      [] wr = "open_failed" -> [ret |-> TRUE, file |-> file]
      [] OTHER              -> [ret |-> TRUE, file |-> CorruptFile]

\* save_coordinates: [ret, file].  "open_failed": open() raised and the file
\* is untouched; "truncated": open() truncated the file and the dump raised.
save_coordinates(file, coords_list, wr) ==
    CASE wr = "ok"          -> [ret |-> TRUE,  file |-> [valid |-> TRUE, data |-> coords_list]]
      [] wr = "open_failed" -> [ret |-> FALSE, file |-> file]
      [] OTHER              -> [ret |-> FALSE, file |-> CorruptFile]

Match(coord, latitude, longitude, timestamp) ==
    LET lat_match  == Abs(coord.latitude - latitude) < Tolerance
        lon_match  == Abs(coord.longitude - longitude) < Tolerance
        time_match == coord.timestamp = timestamp
    IN  lat_match /\ lon_match /\ time_match

coordinate_exists(file, latitude, longitude, timestamp, ioOk) ==
    LET coords_list == load_coordinates(file, ioOk)
    IN  \E i \in 1..Len(coords_list) : Match(coords_list[i], latitude, longitude, timestamp)

\* add_coordinate: [ret, file, id]; id is the id given to new_coord, 0 when
\* the duplicate check returned first.
add_coordinate(file, latitude, longitude, timestamp, cliente, io1, io2, wr) ==
    IF coordinate_exists(file, latitude, longitude, timestamp, io1)
    THEN [ret |-> FALSE, file |-> file, id |-> 0]
    ELSE LET coords_list == load_coordinates(file, io2)
             new_coord   == [latitude |-> latitude, longitude |-> longitude,
                             timestamp |-> timestamp, cliente |-> cliente,
                             id |-> Len(coords_list) + 1]
             saved       == save_coordinates(file, Append(coords_list, new_coord), wr)
         IN  [ret |-> saved.ret, file |-> saved.file, id |-> new_coord.id]

\* ------------------------------------------------------------------------
\* Recognised text and extraction
\* ------------------------------------------------------------------------
\* A text is what the patterns of the source capture from it:
\*   long   None, or the groups of match1: <<[day, mon, year, hh, mm, ss]>>,
\*          mon being the lower-cased first three letters of the month token
\*   slash  None, or the groups of match2: <<[day, month, year, hh, mm, ss]>>
\*   coords None, or the two numerals of coords_match: <<latitude, longitude>>
\*   tags   the words captured after "#Oia"
month_map ==
    [m \in {"jan", "fev", "mar", "abr", "mai", "jun",
            "jul", "ago", "set", "out", "nov", "dez"} |->
        CASE m = "jan" -> 1  [] m = "fev" -> 2  [] m = "mar" -> 3
          [] m = "abr" -> 4  [] m = "mai" -> 5  [] m = "jun" -> 6
          [] m = "jul" -> 7  [] m = "ago" -> 8  [] m = "set" -> 9
          [] m = "out" -> 10 [] m = "nov" -> 11 [] OTHER     -> 12]

IsLeap(y) == (y % 4 = 0 /\ y % 100 # 0) \/ y % 400 = 0

DaysInMonth(y, m) ==
    IF m = 2 THEN (IF IsLeap(y) THEN 29 ELSE 28)
    ELSE IF m \in {4, 6, 9, 11} THEN 30 ELSE 31

\* datetime(year, month, day, hour, minute, second): the value, or None
\* where the constructor raises ValueError.
datetime(year, month, day, hour, minute, second) ==
    IF /\ year \in 1..9999 /\ month \in 1..12
       /\ day >= 1 /\ day <= DaysInMonth(year, month)
       /\ hour \in 0..23 /\ minute \in 0..59 /\ second \in 0..59
    THEN Some([year |-> year, month |-> month, day |-> day,
               hour |-> hour, minute |-> minute, second |-> second])
    ELSE None

\* dt.strftime('%d/%m/%Y %H:%M:%S'): the fields in the order of the string.
strftime(dt) == <<dt.day, dt.month, dt.year, dt.hour, dt.minute, dt.second>>

\* the two rules tried in the other order
find_datetime_in_text_SlashFirst(text) ==
    LET m1 == text.long
        m2 == text.slash
        r1 == IF m1 # None /\ m1[1].mon \in DOMAIN month_map
              THEN datetime(m1[1].year, month_map[m1[1].mon], m1[1].day,
                            m1[1].hh, m1[1].mm, m1[1].ss)
              ELSE None
        r2 == IF m2 # None
              THEN datetime(m2[1].year, m2[1].month, m2[1].day,
                            m2[1].hh, m2[1].mm, m2[1].ss)
              ELSE None
    IN  IF r2 # None THEN r2 ELSE r1

find_datetime_in_text(text) ==
    LET m1 == text.long
        m2 == text.slash
        r1 == IF m1 # None /\ m1[1].mon \in DOMAIN month_map
              THEN datetime(m1[1].year, month_map[m1[1].mon], m1[1].day,
                            m1[1].hh, m1[1].mm, m1[1].ss)
              ELSE None
        r2 == IF m2 # None
              THEN datetime(m2[1].year, m2[1].month, m2[1].day,
                            m2[1].hh, m2[1].mm, m2[1].ss)
              ELSE None
    IN  IF r1 # None THEN r1 ELSE r2

extract_client_tag(text) == text.tags

\* parse_coordinates without the two range checks
parse_coordinates_NoRange(raw) == Some(<<raw[1], raw[2]>>)

\* parse_coordinates that brings a value out of range to the nearest limit
parse_coordinates_Clamp(raw) ==
    LET latitude  == IF raw[1] > LatLimit THEN LatLimit
                     ELSE IF raw[1] < -LatLimit THEN -LatLimit ELSE raw[1]
        longitude == IF raw[2] > LonLimit THEN LonLimit
                     ELSE IF raw[2] < -LonLimit THEN -LonLimit ELSE raw[2]
    IN  Some(<<latitude, longitude>>)

parse_coordinates(raw) ==
    LET latitude  == raw[1]
        longitude == raw[2]
    IN  IF ~(-LatLimit <= latitude /\ latitude <= LatLimit) THEN None
        ELSE IF ~(-LonLimit <= longitude /\ longitude <= LonLimit) THEN None
        ELSE Some(<<latitude, longitude>>)

\* f"{latitude:.4f}, {longitude:.4f}": both values rounded to 1e-4 degree.
Round4(x) == IF x >= 0 THEN (x + 50) \div 100 ELSE -((-x + 50) \div 100)
FormatCoords(latitude, longitude) == <<Round4(latitude), Round4(longitude)>>

NoData == [dt_object |-> None, coords_str |-> None, latitude |-> None,
           longitude |-> None, tags |-> <<>>, attempts |-> 0]

RECURSIVE ExtractFrom(_, _, _, _)
\* The loop of extract_data_from_image from attempt number `attempt`;
\* ocr[i] is TRUE when recognition attempt i returns the text and FALSE
\* when it raises; acc holds the locals.
ExtractFrom(attempt, ocr, text, acc) ==
    IF attempt > MaxRetries + 1 THEN acc
    ELSE IF ~ocr[attempt]
         THEN ExtractFrom(attempt + 1, ocr, text, [acc EXCEPT !.attempts = attempt])
    ELSE LET dt     == find_datetime_in_text(text)
             tags   == extract_client_tag(text)
             parsed == IF text.coords # None THEN parse_coordinates(text.coords[1]) ELSE None
             a1     == [acc EXCEPT !.dt_object = dt, !.tags = tags, !.attempts = attempt]
         IN  IF parsed # None
             THEN [a1 EXCEPT !.latitude = Some(parsed[1][1]),
                             !.longitude = Some(parsed[1][2]),
                             !.coords_str = Some(FormatCoords(parsed[1][1], parsed[1][2]))]
             ELSE IF dt # None \/ a1.coords_str # None \/ tags # <<>>
                  THEN a1
                  ELSE ExtractFrom(attempt + 1, ocr, text, a1)

\* the loop over range(max_retries + 2): one more attempt after the last
\* one raised
extract_data_from_image_ExtraAttempt(text, ocr) ==
    LET x == ExtractFrom(1, ocr, text, NoData)
    IN  IF x.attempts = MaxRetries + 1 /\ ~ocr[MaxRetries + 1]
        THEN [x EXCEPT !.attempts = MaxRetries + 2]
        ELSE x

extract_data_from_image(text, ocr) == ExtractFrom(1, ocr, text, NoData)

\* Python truth value of an optional float: None and 0.0 are false.
Truthy(optnum) == optnum # None /\ optnum[1] # 0

\* resolution that falls back to the geofence when the single tag is unknown
ResolveCliente_FallsBack(tags, latitude, longitude) ==
    IF Len(tags) = 1 /\ ("Oia " \o tags[1]) \in ClienteNames
    THEN [cliente |-> "Oia " \o tags[1], ignorada |-> FALSE]
    ELSE IF Truthy(latitude) /\ Truthy(longitude)
         THEN [cliente |-> find_cliente_by_geofence(latitude[1], longitude[1]), ignorada |-> FALSE]
         ELSE [cliente |-> NoCliente, ignorada |-> FALSE]

\* resolution that takes the first tag whenever there is one
ResolveCliente_FirstTag(tags, latitude, longitude) ==
    IF Len(tags) >= 1
    THEN LET tag_cliente == "Oia " \o tags[1]
         IN  IF tag_cliente \in ClienteNames
             THEN [cliente |-> tag_cliente, ignorada |-> FALSE]
             ELSE [cliente |-> NoCliente, ignorada |-> TRUE]
    ELSE IF Truthy(latitude) /\ Truthy(longitude)
         THEN [cliente |-> find_cliente_by_geofence(latitude[1], longitude[1]), ignorada |-> FALSE]
         ELSE [cliente |-> NoCliente, ignorada |-> FALSE]

\* validate / resolve: lines 496-514 of handle_photo; [cliente, ignorada].
ResolveCliente(tags, latitude, longitude) ==
    IF Len(tags) = 1
    THEN LET tag_cliente == "Oia " \o tags[1]
         IN  IF tag_cliente \in ClienteNames
             THEN [cliente |-> tag_cliente, ignorada |-> FALSE]
             ELSE [cliente |-> NoCliente, ignorada |-> TRUE]
    ELSE IF Truthy(latitude) /\ Truthy(longitude)
         THEN [cliente |-> find_cliente_by_geofence(latitude[1], longitude[1]), ignorada |-> FALSE]
         ELSE [cliente |-> NoCliente, ignorada |-> FALSE]

\* ------------------------------------------------------------------------
\* Inputs
\* ------------------------------------------------------------------------
GiroLat == -6754173
GiroLon == -51071787

Longs ==
    { None,
      Some([day |-> 5,  mon |-> "nov", year |-> 2024, hh |-> 10, mm |-> 0, ss |-> 0]),
      Some([day |-> 32, mon |-> "nov", year |-> 2024, hh |-> 10, mm |-> 0, ss |-> 0]) }

Slashes ==
    { None,
      Some([day |-> 6, month |-> 11, year |-> 2024, hh |-> 10, mm |-> 0, ss |-> 0]) }

\* the centre of Oia Giro, a point 0.00006 degree from it (within the
\* tolerance of coordinate_exists), a point outside every geofence and a
\* latitude of 91 degrees
CoordsIn ==
    { None,
      Some(<<GiroLat, GiroLon>>),
      Some(<<GiroLat + 60, GiroLon>>),
      Some(<<-6700000, -51000000>>),
      Some(<<91000000, GiroLon>>) }

TagsIn == { <<>>, <<"Giro">>, <<"Xyz">>, <<"Giro", "Mix">> }

Texts == [long : Longs, slash : Slashes, coords : CoordsIn, tags : TagsIn]

\* recognition raises on the first k attempts and returns the text afterwards
OcrFailures == {0, MaxRetries + 1}
OcrPatterns == { [i \in 1..(MaxRetries + 1) |-> i > k] : k \in OcrFailures }

\* ------------------------------------------------------------------------
\* State
\* ------------------------------------------------------------------------
VARIABLES
    coordsFile,   \* content of coordenadas.json
    mapa_timer,   \* the global: 0 for None, else the task it refers to
    tasks,        \* the asyncio tasks running send_map_after_delay
    hpc,          \* where handle_photo stands: "idle", "reply", "reply_error", "done"
    h,            \* what handle_photo holds at and after its reply
    lastAdd,      \* the call of add_coordinate made by the running handle_photo
    sinceArm,     \* time since schedule_map_generation was last called
    burst,        \* the records whose insert armed the pending timer: the keys
                  \* of those still in the file, and whether one was lost from it
    lastFire,     \* what the last timer that woke up did
    maxId,        \* largest id given to a record that was written, 0 at the start
    probe         \* one text taken through the extraction functions on its own:
                  \* the text, what recognition does, and what each function gave

vars == <<coordsFile, mapa_timer, tasks, hpc, h, lastAdd, sinceArm, burst, lastFire, maxId, probe>>

TaskIds == 1..MaxTasks
FreeTask == [st |-> "free", remaining |-> 0]

\* The locals of handle_photo that are read after line 546, each by its
\* truth value, the reply chosen, and armed: schedule_map_generation was called.
H0 == [cliente_definido |-> FALSE, coords_str |-> FALSE, dt_object |-> FALSE,
       is_duplicate |-> FALSE, ignorada |-> FALSE, reply_text |-> "none",
       armed |-> FALSE]

\* called: add_coordinate was called; key: the triple written; ret: its result;
\* existed: an equivalent record was in the file; wrote: the write it made;
\* id: the id of new_coord
NoAdd == [called |-> FALSE, key |-> None, ret |-> FALSE, existed |-> FALSE,
          wrote |-> "none", id |-> 0]

\* fired: a timer woke up since the last arm; at: the time since the last arm
\* at which it did; current: it was the timer mapa_timer refers to; complete:
\* the list generate_map read held every record of the burst; failed:
\* generate_map made no map, or send_document raised
NoFire == [fired |-> FALSE, at |-> 0, current |-> TRUE, complete |-> TRUE,
           failed |-> FALSE]

NoBurst == [keys |-> {}, lost |-> FALSE]

\* no text is under the probe
NoProbe == [pc |-> "none"]

Init ==
    /\ coordsFile = EmptyFile
    /\ mapa_timer = 0
    /\ tasks = [t \in TaskIds |-> FreeTask]
    /\ hpc = "idle"
    /\ h = H0
    /\ lastAdd = NoAdd
    /\ sinceArm = 0
    /\ burst = NoBurst
    /\ lastFire = NoFire
    /\ maxId = 0
    /\ probe = NoProbe

Key(rec) == <<rec.latitude, rec.longitude, rec.timestamp>>
Keys(list) == { Key(list[i]) : i \in 1..Len(list) }

Sleeping == { t \in TaskIds : tasks[t].st = "sleeping" }
TimerDue == \E t \in Sleeping : tasks[t].remaining = 0

\* an equivalent record is in the file, whatever a read of it returns
Stored(file, key) ==
    \E i \in 1..Len(file.data) : Match(file.data[i], key[1], key[2], key[3])

\* ------------------------------------------------------------------------
\* handle_photo
\* ------------------------------------------------------------------------
\* Lines 494-514: extraction and resolution.
\* [x, cliente_definido, ignorada, try]; try is the condition of line 517.
Resolved(text, ocr) ==
    LET x == extract_data_from_image(text, ocr)
        r == ResolveCliente(x.tags, x.latitude, x.longitude)
    IN  [x |-> x, cliente_definido |-> r.cliente, ignorada |-> r.ignorada,
         try |-> x.coords_str # None /\ r.cliente # NoCliente
                     /\ x.dt_object # None /\ ~r.ignorada]

\* lines 535-546
ReplyText(ignorada, is_duplicate, cliente_definido, coords_str, dt_object) ==
    IF ignorada THEN "invalid"
    ELSE IF is_duplicate THEN "duplicate"
    ELSE IF cliente_definido # NoCliente /\ coords_str # None /\ dt_object # None THEN "success"
    ELSE "incomplete"

\* what lines 494-514 can give for the texts and recognition failures of the
\* model
Submissions == { Resolved(text, ocr) : text \in Texts, ocr \in OcrPatterns }

\* Lines 516-546, all synchronous, for the outcome r of lines 494-514:
\* [h, add, file].  io1, io2 and wr are what the two reads and the write of
\* add_coordinate meet.
ProcessPhoto(file, r, io1, io2, wr) ==
    LET x   == r.x
        ts  == strftime(x.dt_object[1])
        key == <<x.latitude[1], x.longitude[1], ts>>
        a   == add_coordinate(file, key[1], key[2], ts, r.cliente_definido, io1, io2, wr)
        is_duplicate == r.try /\ ~a.ret
    IN  [h |-> [cliente_definido |-> r.cliente_definido # NoCliente,
                coords_str |-> x.coords_str # None,
                dt_object |-> x.dt_object # None,
                is_duplicate |-> is_duplicate,
                ignorada |-> r.ignorada,
                reply_text |-> ReplyText(r.ignorada, is_duplicate, r.cliente_definido,
                                         x.coords_str, x.dt_object),
                armed |-> FALSE],
         add |-> IF r.try
                 THEN [called |-> TRUE, key |-> IF a.ret THEN Some(key) ELSE None, ret |-> a.ret,
                       existed |-> Stored(file, key),
                       wrote |-> IF a.id # 0 THEN wr ELSE "none", id |-> a.id]
                 ELSE NoAdd,
         file |-> IF r.try THEN a.file ELSE file]

\* what the reads and the write can meet on the way the call takes
Environments(file, r) ==
    IF ~r.try THEN {<<TRUE, TRUE, "ok">>}
    ELSE { e \in BOOLEAN \X BOOLEAN \X WriteOutcomes :
             \/ ProcessPhoto(file, r, e[1], TRUE, "ok").add.wrote # "none"
             \/ e[2] /\ e[3] = "ok" }

HandlePhoto ==
    /\ hpc = "idle"
    /\ ~TimerDue
    /\ \E r \in Submissions :
         \E e \in Environments(coordsFile, r) :
           LET p == ProcessPhoto(coordsFile, r, e[1], e[2], e[3])
           IN  /\ Len(p.file.data) <= MaxRecords
               /\ h' = p.h
               /\ lastAdd' = p.add
               /\ coordsFile' = p.file
               /\ maxId' = IF p.add.ret /\ p.add.id > maxId THEN p.add.id ELSE maxId
    /\ hpc' = "reply"
    /\ burst' = [keys |-> burst.keys \cap Keys(coordsFile'.data),
                 lost |-> burst.lost \/ ~(burst.keys \subseteq Keys(coordsFile'.data))]
    /\ UNCHANGED <<mapa_timer, tasks, sinceArm, lastFire, probe>>

\* download_to_drive raises: the handler answers with the error text and returns
HandlePhotoError ==
    /\ hpc = "idle"
    /\ ~TimerDue
    /\ hpc' = "reply_error"
    /\ h' = [H0 EXCEPT !.reply_text = "error"]
    /\ UNCHANGED <<coordsFile, lastAdd, mapa_timer, tasks, sinceArm, burst, lastFire, maxId, probe>>

ReplyError ==
    /\ hpc = "reply_error"
    /\ ~TimerDue
    /\ hpc' = "done"
    /\ UNCHANGED <<h, coordsFile, lastAdd, mapa_timer, tasks, sinceArm, burst, lastFire, maxId, probe>>

\* handle_photo has returned; the dispatcher takes the next update
Return ==
    /\ hpc = "done"
    /\ ~TimerDue
    /\ hpc' = "idle"
    /\ h' = H0
    /\ lastAdd' = NoAdd
    /\ UNCHANGED <<coordsFile, mapa_timer, tasks, sinceArm, burst, lastFire, maxId, probe>>

\* ------------------------------------------------------------------------
\* schedule_map_generation and send_map_after_delay
\* ------------------------------------------------------------------------
\* schedule_map_generation without mapa_timer.cancel(): the old task sleeps on
CancelTask_NoCancel(task) == task

\* task.cancel(): a task that waits in its sleep or in send_document gets
\* CancelledError there and ends; a finished task is left as it is.
CancelTask(task) ==
    IF task.st \in {"sleeping", "sending"}
    THEN [st |-> "cancelled", remaining |-> 0]
    ELSE task

\* a task object nobody refers to disappears once it has ended
Release(task) ==
    IF task.st \in {"done", "cancelled"} THEN FreeTask ELSE task

\* asyncio.create_task(send_map_after_delay()): the task starts its sleep
NewTask(delay) == [st |-> "sleeping", remaining |-> delay]

\* schedule_map_generation(context, delay): [mapa_timer, tasks]; the body has
\* no await, so it runs as one step.
schedule_map_generation(timer, tks, delay) ==
    LET cancelled == IF timer # 0
                     THEN [tks EXCEPT ![timer] = Release(CancelTask(tks[timer]))]
                     ELSE tks
        free      == { t \in TaskIds : cancelled[t].st = "free" }
        new       == CHOOSE t \in free : \A u \in free : t <= u
    IN  [mapa_timer |-> new, tasks |-> [cancelled EXCEPT ![new] = NewTask(delay)]]

CanSchedule(timer, tks) ==
    \E t \in TaskIds : \/ tks[t].st = "free"
                       \/ t = timer /\ Release(CancelTask(tks[t])).st = "free"

\* the condition of line 551
ArmCondition(loc) ==
    /\ loc.cliente_definido
    /\ loc.coords_str
    /\ ~loc.is_duplicate
    /\ ~loc.ignorada

\* reply_text returns: lines 548-553
Reply ==
    /\ hpc = "reply"
    /\ ~TimerDue
    /\ hpc' = "done"
    /\ IF ArmCondition(h)
       THEN /\ CanSchedule(mapa_timer, tasks)
            /\ LET s       == schedule_map_generation(mapa_timer, tasks, Delay)
                   pending == mapa_timer # 0 /\ tasks[mapa_timer].st = "sleeping"
                   new     == IF lastAdd.ret THEN {lastAdd.key[1]} ELSE {}
               IN  /\ mapa_timer' = s.mapa_timer
                   /\ tasks' = s.tasks
                   /\ burst' = IF pending
                               THEN [burst EXCEPT !.keys = @ \cup new]
                               ELSE [keys |-> new, lost |-> FALSE]
                   /\ lastFire' = NoFire
            /\ sinceArm' = 0
            /\ h' = [h EXCEPT !.armed = TRUE]
       ELSE UNCHANGED <<mapa_timer, tasks, burst, lastFire, sinceArm, h>>
    /\ UNCHANGED <<coordsFile, lastAdd, maxId, probe>>

\* reply_text raises: the exception leaves handle_photo at line 548
ReplyFails ==
    /\ hpc = "reply"
    /\ ~TimerDue
    /\ hpc' = "done"
    /\ UNCHANGED <<h, coordsFile, mapa_timer, tasks, sinceArm, burst, lastFire, lastAdd, maxId, probe>>

\* generate_map: [ret, coords_list]; renderOk is FALSE when folium is missing
\* or raises.  Every record has a client, so coords_com_cliente is the list.
generate_map(file, ioOk, renderOk) ==
    LET coords_list == load_coordinates(file, ioOk)
        coords_com_cliente == SelectSeq(coords_list, LAMBDA c : c.cliente # NoCliente)
    IN  [ret |-> coords_list # <<>> /\ coords_com_cliente # <<>> /\ renderOk,
         coords_list |-> coords_list]

\* a task that starts its sleep again when it ends: an automatic retry
Finished_Retry(t) == NewTask(Delay)

\* the task object after send_map_after_delay has ended
Finished(t) == IF t = mapa_timer THEN [st |-> "done", remaining |-> 0] ELSE FreeTask

\* asyncio.sleep(delay) returns in task t: generate_map and, if it made the
\* map, the start of send_document (lines 301-309)
TimerFire(t) ==
    /\ tasks[t].st = "sleeping"
    /\ tasks[t].remaining = 0
    /\ \E ioOk, renderOk \in BOOLEAN :
         LET g == generate_map(coordsFile, ioOk, renderOk)
         IN  /\ tasks' = [tasks EXCEPT ![t] = IF g.ret THEN [st |-> "sending", remaining |-> 0]
                                                        ELSE Finished(t)]
             /\ lastFire' = [fired |-> TRUE, at |-> sinceArm, current |-> (t = mapa_timer),
                             complete |-> ~burst.lost
                                          /\ burst.keys \subseteq Keys(g.coords_list),
                             failed |-> ~g.ret]
    /\ burst' = NoBurst
    /\ sinceArm' = 0
    /\ UNCHANGED <<coordsFile, mapa_timer, hpc, h, lastAdd, maxId, probe>>

\* send_document returns
SendDone(t) ==
    /\ tasks[t].st = "sending"
    /\ tasks' = [tasks EXCEPT ![t] = Finished(t)]
    /\ UNCHANGED <<coordsFile, mapa_timer, hpc, h, sinceArm, burst, lastFire, lastAdd, maxId, probe>>

\* send_document raises: caught and logged at line 317
SendFail(t) ==
    /\ tasks[t].st = "sending"
    /\ tasks' = [tasks EXCEPT ![t] = Finished(t)]
    /\ lastFire' = [lastFire EXCEPT !.failed = TRUE]
    /\ UNCHANGED <<coordsFile, mapa_timer, hpc, h, sinceArm, burst, lastAdd, maxId, probe>>

\* time passes while a timer sleeps, up to the moment the first one is due
Tick ==
    /\ Sleeping # {}
    /\ ~TimerDue
    /\ LET least == CHOOSE r \in { tasks[t].remaining : t \in Sleeping } :
                        \A t \in Sleeping : r <= tasks[t].remaining
           d     == Min(TickStep, least)
       IN  /\ tasks' = [t \in TaskIds |->
                          IF tasks[t].st = "sleeping"
                          THEN [tasks[t] EXCEPT !.remaining = @ - d]
                          ELSE tasks[t]]
           /\ sinceArm' = sinceArm + d
    /\ UNCHANGED <<coordsFile, mapa_timer, hpc, h, burst, lastFire, lastAdd, maxId, probe>>

Next ==
    \/ HandlePhoto
    \/ HandlePhotoError
    \/ ReplyError
    \/ Reply
    \/ ReplyFails
    \/ Return
    \/ \E t \in TaskIds : TimerFire(t)
    \/ \E t \in TaskIds : SendDone(t)
    \/ \E t \in TaskIds : SendFail(t)
    \/ Tick

Spec == Init /\ [][Next]_vars

\* ------------------------------------------------------------------------
\* The extraction functions on their own
\* ------------------------------------------------------------------------
\* Coordinates for the probe: those of CoordsIn, the point of the meridian of
\* Oia Giro that the model puts at 5000 dm (499.93 m) from its centre and the
\* next one, at 5001 dm (500.04 m), a latitude of 0, and pairs with one
\* value out of range on either side.
CoordsProbe ==
    CoordsIn \cup
    { Some(<<GiroLat + 4496, GiroLon>>),
      Some(<<GiroLat + 4497, GiroLon>>),
      Some(<<0, GiroLon>>),
      Some(<<-91000000, GiroLon>>),
      Some(<<GiroLat, 181000000>>),
      Some(<<GiroLat, -181000000>>) }

\* the tag lists of TagsIn and two tags that name clients other than Oia Giro
TagsProbe == TagsIn \cup { <<"Mix", "Ideal">> }

TextsProbe == [long : Longs, slash : Slashes, coords : CoordsProbe, tags : TagsProbe]

\* recognition raises on the first k attempts, k from 0 to all of them
OcrProbe == { [i \in 1..(MaxRetries + 1) |-> i > k] : k \in 0..(MaxRetries + 1) }

InitProbe ==
    /\ coordsFile = EmptyFile
    /\ mapa_timer = 0
    /\ tasks = [t \in TaskIds |-> FreeTask]
    /\ hpc = "idle"
    /\ h = H0
    /\ lastAdd = NoAdd
    /\ sinceArm = 0
    /\ burst = NoBurst
    /\ lastFire = NoFire
    /\ maxId = 0
    /\ probe \in [pc : {"text"}, text : TextsProbe, ocr : OcrProbe]

handler == <<coordsFile, mapa_timer, tasks, hpc, h, lastAdd, sinceArm, burst, lastFire, maxId>>

\* find_datetime_in_text(cleaned_text)
FindDatetime ==
    /\ probe.pc = "text"
    /\ probe' = [pc |-> "dated", text |-> probe.text, ocr |-> probe.ocr,
                 dt |-> find_datetime_in_text(probe.text)]
    /\ UNCHANGED handler

\* extract_data_from_image(file_path, max_retries=2)
ExtractData ==
    /\ probe.pc = "text"
    /\ probe' = [pc |-> "extracted", text |-> probe.text, ocr |-> probe.ocr,
                 x |-> extract_data_from_image(probe.text, probe.ocr)]
    /\ UNCHANGED handler

\* lines 494-546 of handle_photo with an empty store whose reads and write
\* go through
Submit ==
    /\ probe.pc = "text"
    /\ LET r == Resolved(probe.text, probe.ocr)
           p == ProcessPhoto(EmptyFile, r, TRUE, TRUE, "ok")
       IN  probe' = [pc |-> "resolved", text |-> probe.text, ocr |-> probe.ocr,
                     x |-> r.x, cliente_definido |-> r.cliente_definido,
                     ignorada |-> r.ignorada, reply_text |-> p.h.reply_text,
                     called |-> p.add.called, file |-> p.file]
    /\ UNCHANGED handler

NextProbe ==
    \/ FindDatetime
    \/ ExtractData
    \/ Submit

SpecProbe == InitProbe /\ [][NextProbe]_vars

\* ------------------------------------------------------------------------
\* Properties
\* ------------------------------------------------------------------------
FailedWrites == {"open_failed", "truncated"}

\* the step in which handle_photo runs lines 494-546
PhotoStep == hpc = "idle" /\ hpc' = "reply"

\* C1: a timer that wakes up does so exactly Delay after the last arm, it is
\* the timer armed last (so a burst of arms gives one report, not one per
\* arm), and the list its report is built from holds every record of the burst.
C1_BurstGivesOneReport ==
    lastFire.fired =>
        /\ lastFire.at = Delay
        /\ lastFire.current
        /\ lastFire.complete

\* C2: at most one timer waits for its delay, and it is the one mapa_timer
\* refers to.
C2_SingleTimer ==
    /\ Cardinality(Sleeping) <= 1
    /\ \A t \in Sleeping : t = mapa_timer

\* a second insert re-armed the scheduler while the first timer was waiting
C2_Witness ==
    /\ hpc = "done"
    /\ h.armed
    /\ Cardinality(burst.keys) >= 2
    /\ Cardinality(Sleeping) = 1

\* C3: when handle_photo is over and its insert had succeeded, it has called
\* schedule_map_generation.
C3_InsertIsFollowedByArm ==
    (hpc = "done" /\ lastAdd.ret) => h.armed

\* C4: when handle_photo has called schedule_map_generation, its insert had
\* succeeded.
C4_ArmOnlyAfterInsert ==
    (hpc = "done" /\ h.armed) => lastAdd.ret

\* C5: no two records of the file are equivalent.
C5_NoEquivalentRecords ==
    \A i, j \in 1..Len(coordsFile.data) :
        i < j => ~Match(coordsFile.data[i], coordsFile.data[j].latitude,
                        coordsFile.data[j].longitude, coordsFile.data[j].timestamp)

\* C6: an insert of a triple that is equivalent to a record of the file
\* returns false, is answered as a duplicate and leaves the file as it was.
C6_DuplicateIsRejected ==
    [][(PhotoStep /\ lastAdd'.existed) =>
          /\ ~lastAdd'.ret
          /\ h'.reply_text = "duplicate"
          /\ coordsFile' = coordsFile]_vars

\* C7: an insert whose write fails returns false, and the list read from the
\* file afterwards is the list that was stored before.
C7_FailedWriteLeavesStore ==
    [][(PhotoStep /\ lastAdd'.wrote \in FailedWrites) =>
          /\ ~lastAdd'.ret
          /\ load_coordinates(coordsFile', TRUE) = load_coordinates(coordsFile, TRUE)]_vars

\* the write of the list ending in the new record went through, and the file
\* holds that record last
Persisted ==
    /\ lastAdd.wrote = "ok"
    /\ coordsFile.valid
    /\ coordsFile.data # <<>>
    /\ Key(coordsFile.data[Len(coordsFile.data)]) = lastAdd.key[1]
    /\ coordsFile.data[Len(coordsFile.data)].id = lastAdd.id

\* C8: the reply is the success text exactly when the submission added its
\* record to the file.
C8_SuccessIffPersisted ==
    hpc \in {"reply", "done"} =>
        /\ (h.reply_text = "success") <=> (lastAdd.called /\ lastAdd.wrote = "ok")
        /\ (lastAdd.called /\ lastAdd.wrote = "ok") => Persisted

\* a write failed and the submission was not answered as a success
C8_Witness ==
    /\ hpc = "reply"
    /\ lastAdd.wrote \in FailedWrites
    /\ h.reply_text = "duplicate"

\* C9: the id given to a record that is written is larger than every id given
\* to a record written before.
C9_IdsIncrease ==
    [][(PhotoStep /\ lastAdd'.ret) => lastAdd'.id > maxId]_vars

\* C10: every record of the file has its latitude and longitude in range and
\* a timestamp, and add_coordinate is called only with coordinates and a date.
C10_RecordsAreValid ==
    /\ \A i \in 1..Len(coordsFile.data) :
          /\ -LatLimit <= coordsFile.data[i].latitude
          /\ coordsFile.data[i].latitude <= LatLimit
          /\ -LonLimit <= coordsFile.data[i].longitude
          /\ coordsFile.data[i].longitude <= LonLimit
          /\ Len(coordsFile.data[i].timestamp) = 6
    /\ lastAdd.called => (h.coords_str /\ h.dt_object)

\* a record given by a single tag, outside every geofence, was written
C10_Witness ==
    /\ hpc = "reply"
    /\ lastAdd.ret
    /\ \E i \in 1..Len(coordsFile.data) :
          find_cliente_by_geofence(coordsFile.data[i].latitude,
                                   coordsFile.data[i].longitude) = NoCliente

\* C18: while handle_photo stands between its successful insert and its arm,
\* no timer wakes up: a task that sleeps goes on sleeping until the arm.
C18_NoFireBetweenInsertAndArm ==
    [][(hpc = "reply" /\ lastAdd.ret /\ hpc' = "reply") =>
          \A t \in TaskIds : tasks[t].st = "sleeping" => tasks'[t].st = "sleeping"]_vars

Submitted == probe.pc = "resolved"

\* C11: a submission with exactly one recognised tag whose name "Oia <tag>"
\* is not in the client table is answered as invalid, gets no client (the
\* geofence is not consulted) and makes no insert.
C11_UnknownSingleTagIsInvalid ==
    (/\ Submitted
     /\ Len(probe.x.tags) = 1
     /\ ("Oia " \o probe.x.tags[1]) \notin ClienteNames) =>
        /\ probe.reply_text = "invalid"
        /\ probe.ignorada
        /\ probe.cliente_definido = NoCliente
        /\ ~probe.called

\* an unknown single tag on a dated photo taken inside a geofence
C11_Witness ==
    /\ Submitted
    /\ probe.x.tags = <<"Xyz">>
    /\ probe.x.dt_object # None
    /\ probe.x.latitude # None
    /\ find_cliente_by_geofence(probe.x.latitude[1], probe.x.longitude[1]) # NoCliente
    /\ probe.reply_text = "invalid"

\* C12: with two or more recognised tags the client is the one the same
\* coordinates get with no tag, that is the geofence result (no client when
\* there are no coordinates), and the submission is not flagged invalid.
C12_ManyTagsAreIgnored ==
    (Submitted /\ Len(probe.x.tags) >= 2) =>
        /\ ~probe.ignorada
        /\ probe.reply_text # "invalid"
        /\ probe.cliente_definido
              = ResolveCliente(<<>>, probe.x.latitude, probe.x.longitude).cliente
        /\ probe.cliente_definido
              = IF probe.x.latitude # None /\ probe.x.longitude # None
                THEN find_cliente_by_geofence(probe.x.latitude[1], probe.x.longitude[1])
                ELSE NoCliente

\* two tags naming other clients on a photo taken inside the geofence of Oia Giro
C12_Witness ==
    /\ Submitted
    /\ probe.x.tags = <<"Mix", "Ideal">>
    /\ probe.cliente_definido = "Oia Giro"

\* distance, as the model measures it, from the coordinates of the probe to
\* client i, and the radius of client i in the same unit
ProbeDistancia(i) ==
    haversine_distance(probe.x.latitude[1], probe.x.longitude[1],
                       CLIENTES_OURILANDIA[i].latitude, CLIENTES_OURILANDIA[i].longitude)
ProbeRaio(i) == CLIENTES_OURILANDIA[i].raio_metros * 10

\* C13: with no tag, coordinates at a distance equal to the radius of a
\* client (and inside no earlier client's geofence) resolve to that client,
\* and coordinates farther than the radius from every client resolve to none.
C13_GeofenceBoundaryIsClosed ==
    (Submitted /\ probe.x.tags = <<>> /\ Truthy(probe.x.latitude) /\ Truthy(probe.x.longitude)) =>
        /\ \A i \in 1..Len(CLIENTES_OURILANDIA) :
              (/\ ProbeDistancia(i) = ProbeRaio(i)
               /\ \A j \in 1..(i - 1) : ProbeDistancia(j) > ProbeRaio(j))
                  => probe.cliente_definido = CLIENTES_OURILANDIA[i].name
        /\ (\A i \in 1..Len(CLIENTES_OURILANDIA) : ProbeDistancia(i) > ProbeRaio(i))
              => probe.cliente_definido = NoCliente

\* coordinates exactly at the radius of Oia Giro resolved to it
C13_Witness ==
    /\ Submitted
    /\ probe.x.tags = <<>>
    /\ probe.x.latitude # None
    /\ ProbeDistancia(1) = ProbeRaio(1)
    /\ probe.cliente_definido = "Oia Giro"

\* what Rule 1 and Rule 2 make of the fields they matched: the value, or None
\* where the month is unknown or the constructor raises
LongForm(text) ==
    IF text.long # None /\ text.long[1].mon \in DOMAIN month_map
    THEN datetime(text.long[1].year, month_map[text.long[1].mon], text.long[1].day,
                  text.long[1].hh, text.long[1].mm, text.long[1].ss)
    ELSE None

SlashForm(text) ==
    IF text.slash # None
    THEN datetime(text.slash[1].year, text.slash[1].month, text.slash[1].day,
                  text.slash[1].hh, text.slash[1].mm, text.slash[1].ss)
    ELSE None

\* C14: for a text in which Rule 1 matches a valid long-form timestamp and
\* Rule 2 a valid slash-form timestamp, find_datetime_in_text returns the
\* long-form one.
C14_LongFormWins ==
    (/\ probe.pc = "dated"
     /\ LongForm(probe.text) # None
     /\ SlashForm(probe.text) # None) =>
        /\ probe.dt # None
        /\ strftime(probe.dt[1]) =
              << probe.text.long[1].day, month_map[probe.text.long[1].mon],
                 probe.text.long[1].year, probe.text.long[1].hh,
                 probe.text.long[1].mm, probe.text.long[1].ss >>

\* both forms were valid, with different days, and the long-form day came out
C14_Witness ==
    /\ probe.pc = "dated"
    /\ LongForm(probe.text) # None
    /\ SlashForm(probe.text) # None
    /\ probe.text.long[1].day # probe.text.slash[1].day
    /\ probe.dt[1].day = probe.text.long[1].day

\* recognition raised at every attempt
AllRaise(ocr) == \A i \in 1..(MaxRetries + 1) : ~ocr[i]

\* C15: extract_data_from_image makes between one and MaxRetries + 1
\* attempts; when every attempt raised it returns the empty result, and the
\* submission is answered as incomplete, with no client and no insert.
C15_AttemptsAreBounded ==
    /\ probe.pc = "extracted" =>
          /\ probe.x.attempts \in 1..(MaxRetries + 1)
          /\ AllRaise(probe.ocr) => probe.x = [NoData EXCEPT !.attempts = MaxRetries + 1]
    /\ (Submitted /\ AllRaise(probe.ocr)) =>
          /\ probe.reply_text = "incomplete"
          /\ probe.cliente_definido = NoCliente
          /\ ~probe.ignorada
          /\ ~probe.called

\* every attempt raised on a text that holds a date, coordinates and a tag
C15_Witness ==
    /\ Submitted
    /\ AllRaise(probe.ocr)
    /\ probe.text.long # None
    /\ probe.text.coords # None
    /\ probe.text.tags = <<"Giro">>
    /\ probe.x.attempts = MaxRetries + 1
    /\ probe.reply_text = "incomplete"

\* the located pair has a value out of range
OutOfRange(raw) ==
    \/ raw[1] < -LatLimit \/ raw[1] > LatLimit
    \/ raw[2] < -LonLimit \/ raw[2] > LonLimit

\* the text holds a located pair out of range or matched date fields out of
\* calendar range
ValidationFailure(text) ==
    \/ text.coords # None /\ OutOfRange(text.coords[1])
    \/ text.long # None /\ text.long[1].mon \in DOMAIN month_map /\ LongForm(text) = None
    \/ text.slash # None /\ SlashForm(text) = None

\* the first attempt at which recognition returns the text
FirstRecognised(ocr) ==
    CHOOSE i \in 1..(MaxRetries + 1) : ocr[i] /\ \A j \in 1..(i - 1) : ~ocr[j]

\* C16: when recognition returns a text with a validation failure, the
\* attempt that returned it is the last one.
C16_ValidationFailureIsNotRetried ==
    (/\ probe.pc = "extracted"
     /\ ~AllRaise(probe.ocr)
     /\ ValidationFailure(probe.text)) =>
        probe.x.attempts = FirstRecognised(probe.ocr)

\* C17: a located pair with a value out of range gives the submission no
\* coordinates at all, and the submission stores no record.
C17_OutOfRangePairIsRejected ==
    (/\ Submitted
     /\ probe.text.coords # None
     /\ OutOfRange(probe.text.coords[1])) =>
        /\ probe.x.coords_str = None
        /\ probe.x.latitude = None
        /\ probe.x.longitude = None
        /\ ~probe.called
        /\ probe.file = EmptyFile
        /\ probe.reply_text # "success"

\* a longitude of 181 degrees on a photo recognised at once, with a known
\* tag and a date
C17_Witness ==
    /\ Submitted
    /\ probe.ocr[1]
    /\ probe.text.coords # None
    /\ probe.text.coords[1][2] > LonLimit
    /\ probe.x.tags = <<"Giro">>
    /\ probe.x.dt_object # None
    /\ probe.reply_text = "incomplete"

\* C20: when the fields matched by Rule 1 are out of calendar range,
\* find_datetime_in_text returns None, whatever else the text holds.
C20_BadLongFormIsNotFound ==
    (/\ probe.pc = "dated"
     /\ probe.text.long # None
     /\ probe.text.long[1].mon \in DOMAIN month_map
     /\ LongForm(probe.text) = None) =>
        probe.dt = None


\* C21: a successful insert leaves the file with the records it held before,
\* unchanged and in the same order, followed by the new record, whatever the
\* reads of the file met.
C21_InsertAppends ==
    [][(PhotoStep /\ lastAdd'.ret) =>
          /\ Len(coordsFile'.data) = Len(coordsFile.data) + 1
          /\ SubSeq(coordsFile'.data, 1, Len(coordsFile.data)) = coordsFile.data
          /\ Key(coordsFile'.data[Len(coordsFile'.data)]) = lastAdd'.key[1]]_vars

\* C22: the arm of a new insert leaves a task that has begun to send its
\* report sending.
C22_ArmSparesDelivery ==
    [][\A t \in TaskIds :
          (tasks[t].st = "sending" /\ hpc = "reply" /\ hpc' = "done") =>
              tasks'[t].st = "sending"]_vars

====
